---------------------------- MODULE Spec2Model ----------------------------
(* Model of examples/halo2_otp.rs: otp_merkle_proof builds, in one          *)
(* single-threaded Context, the circuit that folds the leaf                 *)
(* Poseidon(time, otp) up a Merkle path of LEVELS (sibling, bit) pairs.     *)
(*                                                                          *)
(* An AssignedValue is modelled by the index of its cell in ctx.advice; a   *)
(* gate of the Context is a record over cell indices.  The Poseidon sponge  *)
(* is modelled by an injective compression function over the naturals.      *)
EXTENDS Integers, Sequences, FiniteSets, TLC

\* Depth of the tree (halo2_otp.rs:16 sets 27; the model folds fewer levels).
LEVELS == 2

\* Input decimal values below HashBase are the ones Compress keeps apart.
HashBase == 10

\* Modulus of the scalar field F the model computes in (a prime, above every
\* value a run assigns).
P == 1000000007

\* Result of a failed Option (None) / an unset binding.
None == -1

\* State of a sponge straight after PoseidonChip::new.
InitState == 0

-----------------------------------------------------------------------------
(* Input strings: sequences of characters. *)

DigitVal == [c \in {"0", "1", "2", "3"} |-> CASE c = "0" -> 0 [] c = "1" -> 1
                                               [] c = "2" -> 2 [] c = "3" -> 3]

OtpStrs   == { <<"1">>, <<"3">>, <<"x">> }
TimeStrs  == { <<"0">>, <<"1", "2">>, <<>> }
ElemStrs  == { <<"2">>, <<"3">>, <<"0", "1">> }
IndexStrs == { <<"0">>, <<"1">>, <<"2">>, <<"1", "x">> }

\* struct CircuitInput
CircuitInput == [otp : OtpStrs, time : TimeStrs,
                 path_elements : [1..LEVELS -> ElemStrs],
                 path_index : [1..LEVELS -> IndexStrs]]

\* One step of the digit loop of F::from_str_vartime: res = res * 10 + c,
\* None on a non-digit or on a leading zero.
RECURSIVE from_str_digits(_, _, _)
from_str_digits(s, k, res) ==
    IF k > Len(s) THEN res
    ELSE IF s[k] \notin DOMAIN DigitVal THEN None
    ELSE IF k = 1 /\ DigitVal[s[k]] = 0 THEN None
    ELSE from_str_digits(s, k + 1, (res * 10 + DigitVal[s[k]]) % P)

\* F::from_str_vartime: decimal string to field element, or None.
from_str_vartime(s) ==
    IF Len(s) = 0 THEN None
    ELSE IF s = <<"0">> THEN 0
    ELSE from_str_digits(s, 1, 0)

-----------------------------------------------------------------------------
(* The Context and the chips. *)

EmptyCtx == [advice |-> <<>>, gates |-> <<>>]

\* ctx.load_witness(v): one more advice cell; the AssignedValue returned is
\* the new cell, LastCell of the resulting context.
load_witness(c, v) == [c EXCEPT !.advice = Append(@, v)]

LastCell(c) == Len(c.advice)

Value(c, cell) == c.advice[cell]

\* Mutant of assert_bit: emits no gate.
assert_bit_none(c, x) == c

\* gate.assert_bit(ctx, x): the gate 0 + x * x = x.
assert_bit(c, x) ==
    [c EXCEPT !.gates = Append(@, [kind |-> "bit", a |-> x, b |-> x, out |-> x,
                                   s |-> InitState])]

\* Mutant of BitOf: every level asserts the first direction bit.
BitOfFirst(pi, i) == pi[1]

\* path_index[i] (i counted from 0, as in the source).
BitOf(pi, i) == pi[i + 1]

\* The 2-to-1 compression of a fresh sponge, injective where one of its
\* arguments is below HashBase.
Compress(a, b) ==
    IF b < HashBase THEN 2 * (a * HashBase + b)
    ELSE 2 * (b * HashBase + a) + 1

\* Absorb (a, b) into a sponge in state s and permute.
Permute(s, a, b) ==
    IF s = InitState THEN Compress(a, b) ELSE Compress(Compress(s, a), b)

\* Mutant of PoseidonNew: the sponge starts from the value last assigned.
PoseidonStale(c) ==
    [state |-> IF Len(c.advice) = 0 THEN InitState ELSE c.advice[Len(c.advice)],
     absorbing |-> <<>>]

\* PoseidonChip::new(ctx, R_F, R_P)
PoseidonNew(c) == [state |-> InitState, absorbing |-> <<>>]

NoChip == [state |-> None, absorbing |-> <<>>]

\* chip.update(&[..]): buffer the cells to absorb.
Update(chip, cells) == [chip EXCEPT !.absorbing = @ \o cells]

\* Value a squeeze of chip produces under the assignment of c.
SqueezeValue(c, chip) ==
    Permute(chip.state, Value(c, chip.absorbing[1]), Value(c, chip.absorbing[2]))

\* chip.squeeze(ctx, &gate): the context after it; the output is LastCell.
SqueezeCtx(c, chip) ==
    [advice |-> Append(c.advice, SqueezeValue(c, chip)),
     gates |-> Append(c.gates, [kind |-> "hash", a |-> chip.absorbing[1],
                                b |-> chip.absorbing[2],
                                out |-> Len(c.advice) + 1, s |-> chip.state])]

\* chip.squeeze(ctx, &gate): the chip after it.
SqueezeChip(c, chip) == [state |-> SqueezeValue(c, chip), absorbing |-> <<>>]

\* Mutant of Push: inserts at the front.
PushFront(v, x) == <<x>> \o v

\* Vec::push
Push(v, x) == Append(v, x)

\* Mutant of LeafInputs: the one-time password is absorbed twice.
LeafInputsNoTime(o, t) == <<o, o>>

\* The cells absorbed by the leaf hash: poseidon.update(&[time, otp]).
LeafInputs(o, t) == <<t, o>>

\* Mutant of LevelInputs: the sibling is left out of the hash.
LevelInputsNoSibling(bit, cur, sib) == <<cur, cur>>

\* Mutant of LevelInputs: the two branches exchanged.
LevelInputsSwapped(bit, cur, sib) ==
    IF bit = 0 THEN <<sib, cur>> ELSE <<cur, sib>>

\* The cells absorbed at a level, chosen by the value of the direction bit.
LevelInputs(bit, cur, sib) ==
    IF bit = 0 THEN <<cur, sib>> ELSE <<sib, cur>>

\* Mutant of RootOf: one level short.
RootOfShort(lh) == lh[LEVELS]

\* let root = level_hashes[LEVELS];
RootOf(lh) == lh[LEVELS + 1]

\* A gate holds under the witness assignment of the context.
GateHolds(c, g) ==
    IF g.kind = "bit"
    THEN (Value(c, g.a) * Value(c, g.b)) % P = Value(c, g.out)
    ELSE Value(c, g.out) = Permute(g.s, Value(c, g.a), Value(c, g.b))

\* MockProver::run(..).assert_satisfied() on the built context.
Satisfied(c) == \A k \in 1..Len(c.gates) : GateHolds(c, c.gates[k])

-----------------------------------------------------------------------------
(* otp_merkle_proof as one function of its input (the actions below take    *)
(* the same steps one at a time).                                           *)

\* input.X.map(|x| ctx.load_witness(F::from_str_vartime(&x).unwrap()))
RECURSIVE MapLoad(_, _, _, _)
MapLoad(strs, k, c, cells) ==
    IF k > Len(strs) THEN [ok |-> TRUE, ctx |-> c, cells |-> cells]
    ELSE IF from_str_vartime(strs[k]) = None
         THEN [ok |-> FALSE, ctx |-> c, cells |-> cells]
    ELSE LET c2 == load_witness(c, from_str_vartime(strs[k]))
         IN  MapLoad(strs, k + 1, c2, Append(cells, LastCell(c2)))

\* The loop for i in 0..LEVELS, from iteration i on.
RECURSIVE FoldFrom(_, _, _, _, _)
FoldFrom(i, c, lh, pe, pi) ==
    IF i >= LEVELS THEN [ctx |-> c, level_hashes |-> lh]
    ELSE LET c1   == assert_bit(c, BitOf(pi, i))
             chip == Update(PoseidonNew(c1),
                            LevelInputs(Value(c1, pi[i + 1]), lh[i + 1], pe[i + 1]))
             c2   == SqueezeCtx(c1, chip)
         IN  FoldFrom(i + 1, c2, Append(lh, LastCell(c2)), pe, pi)

Panicked(c) == [pc |-> "panic", ctx |-> c, make_public |-> <<>>,
                level_hashes |-> <<>>]

Run(in) ==
    IF from_str_vartime(in.otp) = None \/ from_str_vartime(in.time) = None
    THEN Panicked(EmptyCtx)
    ELSE
    LET pe == MapLoad(in.path_elements, 1, EmptyCtx, <<>>) IN
    IF ~pe.ok THEN Panicked(pe.ctx) ELSE
    LET pi == MapLoad(in.path_index, 1, pe.ctx, <<>>) IN
    IF ~pi.ok THEN Panicked(pi.ctx) ELSE
    LET c1   == load_witness(pi.ctx, from_str_vartime(in.otp))
        o    == LastCell(c1)
        c2   == load_witness(c1, from_str_vartime(in.time))
        t    == LastCell(c2)
        mp   == Push(<<>>, t)
        chip == Update(PoseidonNew(c2), LeafInputs(o, t))
        c3   == SqueezeCtx(c2, chip)
        f    == FoldFrom(0, c3, Push(<<>>, LastCell(c3)), pe.cells, pi.cells)
    IN  [pc |-> "done", ctx |-> f.ctx,
         make_public |-> Push(mp, RootOf(f.level_hashes)),
         level_hashes |-> f.level_hashes]

-----------------------------------------------------------------------------
VARIABLES input, pc, i, otp_f, time_f, path_elements, path_index, otp, time,
          ctx, make_public, poseidon, leaf, level_hashes, inner_poseidon, root

vars == <<input, pc, i, otp_f, time_f, path_elements, path_index, otp, time,
          ctx, make_public, poseidon, leaf, level_hashes, inner_poseidon, root>>

Init ==
    /\ input \in CircuitInput
    /\ pc = "l34"
    /\ i = 0
    /\ otp_f = None /\ time_f = None
    /\ path_elements = <<>> /\ path_index = <<>>
    /\ otp = 0 /\ time = 0 /\ leaf = 0 /\ root = 0
    /\ ctx = EmptyCtx
    /\ make_public = <<>>
    /\ poseidon = NoChip /\ inner_poseidon = NoChip
    /\ level_hashes = <<>>

\* line 34
ParseOtp ==
    /\ pc = "l34"
    /\ otp_f' = from_str_vartime(input.otp)
    /\ pc' = IF otp_f' = None THEN "panic" ELSE "l35"
    /\ UNCHANGED <<input, i, time_f, path_elements, path_index, otp, time, ctx,
                   make_public, poseidon, leaf, level_hashes, inner_poseidon, root>>

\* line 35
ParseTime ==
    /\ pc = "l35"
    /\ time_f' = from_str_vartime(input.time)
    /\ pc' = IF time_f' = None THEN "panic" ELSE "l36"
    /\ UNCHANGED <<input, i, otp_f, path_elements, path_index, otp, time, ctx,
                   make_public, poseidon, leaf, level_hashes, inner_poseidon, root>>

\* line 36, the closure applied to element i of input.path_elements
MapPathElement ==
    /\ pc = "l36"
    /\ LET v == from_str_vartime(input.path_elements[i + 1]) IN
       IF v = None
       THEN /\ pc' = "panic"
            /\ UNCHANGED <<i, ctx, path_elements>>
       ELSE /\ ctx' = load_witness(ctx, v)
            /\ path_elements' = Append(path_elements, LastCell(ctx'))
            /\ i' = IF i + 1 = LEVELS THEN 0 ELSE i + 1
            /\ pc' = IF i + 1 = LEVELS THEN "l37" ELSE "l36"
    /\ UNCHANGED <<input, otp_f, time_f, path_index, otp, time, make_public,
                   poseidon, leaf, level_hashes, inner_poseidon, root>>

\* line 37, the closure applied to element i of input.path_index
MapPathIndex ==
    /\ pc = "l37"
    /\ LET v == from_str_vartime(input.path_index[i + 1]) IN
       IF v = None
       THEN /\ pc' = "panic"
            /\ UNCHANGED <<i, ctx, path_index>>
       ELSE /\ ctx' = load_witness(ctx, v)
            /\ path_index' = Append(path_index, LastCell(ctx'))
            /\ i' = IF i + 1 = LEVELS THEN 0 ELSE i + 1
            /\ pc' = IF i + 1 = LEVELS THEN "l39" ELSE "l37"
    /\ UNCHANGED <<input, otp_f, time_f, path_elements, otp, time, make_public,
                   poseidon, leaf, level_hashes, inner_poseidon, root>>

\* line 39
LoadOtp ==
    /\ pc = "l39"
    /\ ctx' = load_witness(ctx, otp_f)
    /\ otp' = LastCell(ctx')
    /\ pc' = "l40"
    /\ UNCHANGED <<input, i, otp_f, time_f, path_elements, path_index, time,
                   make_public, poseidon, leaf, level_hashes, inner_poseidon, root>>

\* line 40
LoadTime ==
    /\ pc = "l40"
    /\ ctx' = load_witness(ctx, time_f)
    /\ time' = LastCell(ctx')
    /\ pc' = "l41"
    /\ UNCHANGED <<input, i, otp_f, time_f, path_elements, path_index, otp,
                   make_public, poseidon, leaf, level_hashes, inner_poseidon, root>>

\* line 41
PushTime ==
    /\ pc = "l41"
    /\ make_public' = Push(make_public, time)
    /\ pc' = "l45"
    /\ UNCHANGED <<input, i, otp_f, time_f, path_elements, path_index, otp, time,
                   ctx, poseidon, leaf, level_hashes, inner_poseidon, root>>

\* lines 44-45
NewPoseidon ==
    /\ pc = "l45"
    /\ poseidon' = PoseidonNew(ctx)
    /\ pc' = "l46"
    /\ UNCHANGED <<input, i, otp_f, time_f, path_elements, path_index, otp, time,
                   ctx, make_public, leaf, level_hashes, inner_poseidon, root>>

\* line 46
UpdateLeaf ==
    /\ pc = "l46"
    /\ poseidon' = Update(poseidon, LeafInputs(otp, time))
    /\ pc' = "l47"
    /\ UNCHANGED <<input, i, otp_f, time_f, path_elements, path_index, otp, time,
                   ctx, make_public, leaf, level_hashes, inner_poseidon, root>>

\* line 47
SqueezeLeaf ==
    /\ pc = "l47"
    /\ ctx' = SqueezeCtx(ctx, poseidon)
    /\ poseidon' = SqueezeChip(ctx, poseidon)
    /\ leaf' = LastCell(ctx')
    /\ pc' = "l50"
    /\ UNCHANGED <<input, i, otp_f, time_f, path_elements, path_index, otp, time,
                   make_public, level_hashes, inner_poseidon, root>>

\* lines 50-51, and the entry of the loop of line 53
PushLeaf ==
    /\ pc = "l50"
    /\ level_hashes' = Push(<<>>, leaf)
    /\ i' = 0
    /\ pc' = IF 0 < LEVELS THEN "l55" ELSE "l68"
    /\ UNCHANGED <<input, otp_f, time_f, path_elements, path_index, otp, time,
                   ctx, make_public, poseidon, leaf, inner_poseidon, root>>

\* line 55
AssertBit ==
    /\ pc = "l55"
    /\ ctx' = assert_bit(ctx, BitOf(path_index, i))
    /\ pc' = "l58"
    /\ UNCHANGED <<input, i, otp_f, time_f, path_elements, path_index, otp, time,
                   make_public, poseidon, leaf, level_hashes, inner_poseidon, root>>

\* line 58
NewInner ==
    /\ pc = "l58"
    /\ inner_poseidon' = PoseidonNew(ctx)
    /\ pc' = "l60"
    /\ UNCHANGED <<input, i, otp_f, time_f, path_elements, path_index, otp, time,
                   ctx, make_public, poseidon, leaf, level_hashes, root>>

\* lines 60-64
UpdateInner ==
    /\ pc = "l60"
    /\ inner_poseidon' =
           Update(inner_poseidon,
                  LevelInputs(Value(ctx, path_index[i + 1]), level_hashes[i + 1],
                              path_elements[i + 1]))
    /\ pc' = "l65"
    /\ UNCHANGED <<input, i, otp_f, time_f, path_elements, path_index, otp, time,
                   ctx, make_public, poseidon, leaf, level_hashes, root>>

\* line 65, and the step of the loop of line 53
SqueezeInner ==
    /\ pc = "l65"
    /\ ctx' = SqueezeCtx(ctx, inner_poseidon)
    /\ inner_poseidon' = SqueezeChip(ctx, inner_poseidon)
    /\ level_hashes' = Push(level_hashes, LastCell(ctx'))
    /\ i' = i + 1
    /\ pc' = IF i + 1 < LEVELS THEN "l55" ELSE "l68"
    /\ UNCHANGED <<input, otp_f, time_f, path_elements, path_index, otp, time,
                   make_public, poseidon, leaf, root>>

\* lines 68-69
Finish ==
    /\ pc = "l68"
    /\ root' = RootOf(level_hashes)
    /\ make_public' = Push(make_public, root')
    /\ pc' = "done"
    /\ UNCHANGED <<input, i, otp_f, time_f, path_elements, path_index, otp, time,
                   ctx, poseidon, leaf, level_hashes, inner_poseidon>>

Next ==
    \/ ParseOtp \/ ParseTime \/ MapPathElement \/ MapPathIndex
    \/ LoadOtp \/ LoadTime \/ PushTime
    \/ NewPoseidon \/ UpdateLeaf \/ SqueezeLeaf \/ PushLeaf
    \/ AssertBit \/ NewInner \/ UpdateInner \/ SqueezeInner
    \/ Finish

Spec == Init /\ [][Next]_vars

-----------------------------------------------------------------------------
\* The stepwise run ends where the function Run says it ends.
RunAgrees ==
    pc \in {"done", "panic"} =>
        Run(input) = [pc |-> pc, ctx |-> ctx, make_public |-> make_public,
                      level_hashes |-> level_hashes]

\* Compress is applied only where it is injective.
CompressDomain ==
    \A k \in 1..Len(ctx.gates) :
        ctx.gates[k].kind = "hash" =>
            \/ Value(ctx, ctx.gates[k].a) < HashBase
            \/ Value(ctx, ctx.gates[k].b) < HashBase

-----------------------------------------------------------------------------
(* Vocabulary of the properties. *)

\* The field element a decimal string of the input stands for.
Dec(str) == from_str_vartime(str)

InputDecodes ==
    /\ Dec(input.otp) # None /\ Dec(input.time) # None
    /\ \A k \in 1..LEVELS : Dec(input.path_elements[k]) # None
    /\ \A k \in 1..LEVELS : Dec(input.path_index[k]) # None

BitsBoolean == \A k \in 1..LEVELS : Dec(input.path_index[k]) \in {0, 1}

\* Levels j (from 0) whose hash level_hashes[j+1] has been produced.
Produced == 0..(Len(level_hashes) - 2)

\* Gate k of the context is the hash gate whose output is cell.
HashGateAt(k, cell) ==
    /\ k \in 1..Len(ctx.gates)
    /\ ctx.gates[k].kind = "hash"
    /\ ctx.gates[k].out = cell

\* Gate k of the context is the boolean gate on cell.
BitGateAt(k, cell) ==
    /\ k \in 1..Len(ctx.gates)
    /\ ctx.gates[k].kind = "bit"
    /\ ctx.gates[k].a = cell /\ ctx.gates[k].b = cell /\ ctx.gates[k].out = cell

\* The Merkle fold computed outside the circuit, on field elements.
RECURSIVE RefFold(_, _, _, _)
RefFold(cur, sibs, bits, k) ==
    IF k > LEVELS THEN cur
    ELSE RefFold(IF Dec(bits[k]) = 0 THEN Compress(cur, Dec(sibs[k]))
                 ELSE Compress(Dec(sibs[k]), cur),
                 sibs, bits, k + 1)

RefRoot(in) ==
    RefFold(Compress(Dec(in.time), Dec(in.otp)), in.path_elements, in.path_index, 1)

\* The value of the root a finished run exposes.
RootValue(r) == Value(r.ctx, r.make_public[Len(r.make_public)])

-----------------------------------------------------------------------------
\* C1: a run on decodable input whose direction bits are all 0 or 1 does not
\* panic; when it is done every gate of the context holds for the assigned
\* witness and the value of the root pushed to make_public is the fold of the
\* leaf over the (sibling, bit) pairs computed outside the circuit.
C1_Completeness ==
    /\ (InputDecodes => pc # "panic")
    /\ (pc = "done" /\ BitsBoolean =>
            /\ Satisfied(ctx)
            /\ Len(make_public) = 2
            /\ Value(ctx, make_public[2]) = RefRoot(input))

C1_Witness ==
    /\ pc = "done" /\ BitsBoolean
    /\ \E k \in 1..LEVELS : Dec(input.path_index[k]) = 0
    /\ \E k \in 1..LEVELS : Dec(input.path_index[k]) = 1

\* C2 as stated: at every level the hash takes left = path_elements[i],
\* right = level_hashes[i] when the bit is 0, and left = level_hashes[i],
\* right = path_elements[i] when the bit is 1.
C2_AsStated ==
    \A j \in Produced :
        \E k \in 1..Len(ctx.gates) :
            /\ HashGateAt(k, level_hashes[j + 2])
            /\ Value(ctx, path_index[j + 1]) = 0 =>
                   /\ ctx.gates[k].a = path_elements[j + 1]
                   /\ ctx.gates[k].b = level_hashes[j + 1]
            /\ Value(ctx, path_index[j + 1]) = 1 =>
                   /\ ctx.gates[k].a = level_hashes[j + 1]
                   /\ ctx.gates[k].b = path_elements[j + 1]

\* C2 amended: at every level the hash takes left = level_hashes[i],
\* right = path_elements[i] when the bit is 0, and left = path_elements[i],
\* right = level_hashes[i] for any other bit; for a bit in {0,1} the left value
\* is (1-bit)*level_hashes[i] + bit*path_elements[i] and the right value is
\* bit*level_hashes[i] + (1-bit)*path_elements[i].
C2_Ordering ==
    \A j \in Produced :
        \E k \in 1..Len(ctx.gates) :
            LET g   == ctx.gates[k]
                bit == Value(ctx, path_index[j + 1])
                cur == Value(ctx, level_hashes[j + 1])
                sib == Value(ctx, path_elements[j + 1])
            IN  /\ HashGateAt(k, level_hashes[j + 2])
                /\ bit = 0 => g.a = level_hashes[j + 1] /\ g.b = path_elements[j + 1]
                /\ bit # 0 => g.a = path_elements[j + 1] /\ g.b = level_hashes[j + 1]
                /\ bit \in {0, 1} =>
                       /\ Value(ctx, g.a) = (1 - bit) * cur + bit * sib
                       /\ Value(ctx, g.b) = bit * cur + (1 - bit) * sib

C2_Witness ==
    /\ pc = "done"
    /\ Value(ctx, path_index[1]) = 0
    /\ Value(ctx, path_index[LEVELS]) = 1

\* C3: the public-output list never holds more than two cells and never the
\* cell of otp, of a sibling or of a direction bit; after a finished run it is
\* exactly <<time, root>>, with root the last level hash.
C3_PublicOutputs ==
    /\ Len(make_public) <= 2
    /\ \A k \in 1..Len(make_public) :
           /\ make_public[k] # otp
           /\ \A n \in 1..Len(path_elements) : make_public[k] # path_elements[n]
           /\ \A n \in 1..Len(path_index) : make_public[k] # path_index[n]
    /\ pc = "done" =>
           /\ make_public = <<time, root>>
           /\ Value(ctx, make_public[1]) = Dec(input.time)
           /\ root = level_hashes[LEVELS + 1]
           /\ time # root

C3_Witness == pc = "done" /\ Len(make_public) = 2

\* C4: after a finished run every direction bit has its own boolean gate, and
\* if some direction bit is neither 0 nor 1 the gates of the context do not all
\* hold for the assigned witness.
C4_BooleanSoundness ==
    pc = "done" =>
        /\ \A n \in 1..LEVELS : \E k \in 1..Len(ctx.gates) : BitGateAt(k, path_index[n])
        /\ (\E n \in 1..LEVELS : Value(ctx, path_index[n]) \notin {0, 1})
               => ~Satisfied(ctx)

C4_Witness ==
    /\ pc = "done"
    /\ Value(ctx, path_index[1]) \in {0, 1}
    /\ Value(ctx, path_index[LEVELS]) \notin {0, 1}
    /\ ~Satisfied(ctx)

\* C5 as stated: when decoding fails nothing has been added to the context
\* (no witness, no gate) and the public-output list is unchanged.
C5_AsStated ==
    pc = "panic" => ctx = EmptyCtx /\ make_public = <<>>

\* The input with sibling k replaced by the string str.
WithSibling(k, str) == [input EXCEPT !.path_elements[k] = str]

\* The input with direction bit k replaced by the string str.
WithBit(k, str) == [input EXCEPT !.path_index[k] = str]

\* The decimal string of the other boolean value.
Flip(str) == IF Dec(str) = 0 THEN <<"1">> ELSE <<"0">>

\* C6 as stated: for a finished run with boolean bits, replacing one sibling
\* by a different value, or flipping one direction bit, changes the root.
C6_AsStated ==
    pc = "done" /\ BitsBoolean =>
        /\ \A k \in 1..LEVELS : \A str \in ElemStrs :
               (Dec(str) # None /\ Dec(str) # Dec(input.path_elements[k]))
                   => RootValue(Run(WithSibling(k, str))) # Value(ctx, root)
        /\ \A k \in 1..LEVELS :
               RootValue(Run(WithBit(k, Flip(input.path_index[k])))) # Value(ctx, root)

\* C6 amended: for a finished run with boolean bits, replacing one sibling by
\* a different value changes the root; flipping the direction bit of a level
\* changes the root provided the sibling of that level differs from the hash
\* entering the level.
C6_TamperSensitivity ==
    pc = "done" /\ BitsBoolean =>
        /\ \A k \in 1..LEVELS : \A str \in ElemStrs :
               (Dec(str) # None /\ Dec(str) # Dec(input.path_elements[k]))
                   => RootValue(Run(WithSibling(k, str))) # Value(ctx, root)
        /\ \A k \in 1..LEVELS :
               Value(ctx, path_elements[k]) # Value(ctx, level_hashes[k])
                   => RootValue(Run(WithBit(k, Flip(input.path_index[k]))))
                          # Value(ctx, root)

C6_Witness ==
    /\ pc = "done" /\ BitsBoolean
    /\ Value(ctx, path_elements[1]) = Value(ctx, level_hashes[1])
    /\ Value(ctx, path_elements[LEVELS]) # Value(ctx, level_hashes[LEVELS])
    /\ RootValue(Run(WithBit(1, Flip(input.path_index[1])))) = Value(ctx, root)
    /\ RootValue(Run(WithBit(LEVELS, Flip(input.path_index[LEVELS]))))
           # Value(ctx, root)

\* C7: from the squeeze of the leaf on, the first gate of the context is the
\* hash of exactly the cells (time, otp) in a fresh sponge, its output is leaf,
\* the time cell it absorbs is the one pushed as public output 0 and holds the
\* decoded input time; no gate precedes it, and level_hashes starts with leaf.
C7_LeafCommitment ==
    /\ leaf = 0 => ctx.gates = <<>> /\ level_hashes = <<>>
    /\ leaf # 0 =>
           /\ HashGateAt(1, leaf)
           /\ ctx.gates[1].a = time /\ ctx.gates[1].b = otp
           /\ ctx.gates[1].s = InitState
           /\ make_public[1] = time
           /\ Value(ctx, time) = Dec(input.time)
           /\ Value(ctx, otp) = Dec(input.otp)
           /\ Value(ctx, leaf) = Compress(Dec(input.time), Dec(input.otp))
    /\ level_hashes # <<>> => level_hashes[1] = leaf

C7_Witness == pc = "done" /\ leaf # 0 /\ make_public[1] = ctx.gates[1].a

\* The wiring of a context: its gates, as records over cell indices.
Wiring(c) == c.gates

\* C8 as stated: a finished run has the same gates, over the same cells, as a
\* finished run on an input that differs only in path_index.
C8_AsStated ==
    pc = "done" =>
        \A pi \in [1..LEVELS -> IndexStrs] :
            LET r == Run([input EXCEPT !.path_index = pi])
            IN  r.pc = "done" => Wiring(r.ctx) = Wiring(ctx)

\* The function of (level_hashes[i], path_elements[i], path_index[i]) a level
\* computes.
LevelFn(cur, sib, bit) ==
    IF bit = 0 THEN Compress(cur, sib) ELSE Compress(sib, cur)

\* C9: every produced level_hashes[i+1] is LevelFn of the values of
\* level_hashes[i], path_elements[i] and path_index[i], hashed in a sponge in
\* its initial state; the sponge of a level is in its initial state when it
\* absorbs; after the loop level_hashes has LEVELS+1 entries, starts with leaf
\* and ends with root.
C9_LevelPurity ==
    /\ \A j \in Produced :
           /\ Value(ctx, level_hashes[j + 2]) =
                  LevelFn(Value(ctx, level_hashes[j + 1]),
                          Value(ctx, path_elements[j + 1]),
                          Value(ctx, path_index[j + 1]))
           /\ \E k \in 1..Len(ctx.gates) :
                  HashGateAt(k, level_hashes[j + 2]) /\ ctx.gates[k].s = InitState
    /\ pc \in {"l60", "l65"} => inner_poseidon.state = InitState
    /\ pc \in {"l68", "done"} =>
           /\ Len(level_hashes) = LEVELS + 1
           /\ level_hashes[1] = leaf
    /\ pc = "done" => root = level_hashes[LEVELS + 1]

C9_Witness ==
    pc = "done" /\ Len(level_hashes) = LEVELS + 1 /\ (LEVELS - 1) \in Produced

\* C10: while level i selects its ordering and squeezes, the boolean gate on
\* path_index[i] is already in the context; the boolean gate of every produced
\* level precedes that level's hash gate.
C10_BitBeforeUse ==
    /\ pc \in {"l58", "l60", "l65"} =>
           \E k \in 1..Len(ctx.gates) : BitGateAt(k, path_index[i + 1])
    /\ \A j \in Produced :
           \E kb, kh \in 1..Len(ctx.gates) :
               /\ kb < kh
               /\ BitGateAt(kb, path_index[j + 1])
               /\ HashGateAt(kh, level_hashes[j + 2])

C10_Witness == pc = "l60" /\ i = LEVELS - 1 /\ Len(ctx.gates) = 2 * LEVELS

=============================================================================
